---- MODULE Spec2Model ----
(***************************************************************************)
(* Model of the Terraform generator backend:                               *)
(*   handlers/generate.go   GenerateTerraform and its helpers              *)
(*   utils/filesystem.go    formatValue / formatDefault and                *)
(*                          GenerateFileFromTemplate                       *)
(*                                                                         *)
(* A Go string is a sequence of one-character strings, so that TrimSpace,  *)
(* ToLower and HasPrefix are computed character by character; Str turns it *)
(* into the text that is written or compared.  A dynamic value             *)
(* (interface{}) is a record [k |-> kind, v |-> payload].  A path is the   *)
(* sequence of its components.                                             *)
(***************************************************************************)
EXTENDS Integers, Sequences, FiniteSets, TLC

(* ---------------------------------------------------------------- bounds *)
MaxCustomers == 2
MaxItems == 2

(* ------------------------------------------------------------ Go strings *)
Str(s) ==
    LET cat[i \in 0..Len(s)] == IF i = 0 THEN "" ELSE cat[i - 1] \o s[i]
    IN  cat[Len(s)]

(* strings.Join *)
JoinStr(items, sep) ==
    LET cat[i \in 0..Len(items)] ==
          IF i = 0 THEN ""
          ELSE IF i = 1 THEN items[1]
          ELSE cat[i - 1] \o sep \o items[i]
    IN  cat[Len(items)]

IsSpace(c) == c \in {" ", "\t", "\n", "\r"}

(* the string as it is, white space kept *)
TrimSpaceNone(s) == s

(* strings.TrimSpace: what lies between the first and the last character that
   is not white space *)
TrimSpace(s) ==
    LET keep == {i \in 1..Len(s) : ~IsSpace(s[i])}
    IN  IF keep = {} THEN <<>>
        ELSE SubSeq(s, CHOOSE i \in keep : \A j \in keep : i <= j,
                       CHOOSE i \in keep : \A j \in keep : i >= j)

HasPrefix(s, p) == Len(s) >= Len(p) /\ SubSeq(s, 1, Len(p)) = p

LowerCase ==
    [c \in {"A", "G", "M", "R", "S", "W", "Z"} |->
        CASE c = "A" -> "a" [] c = "G" -> "g" [] c = "M" -> "m" [] c = "R" -> "r"
          [] c = "S" -> "s" [] c = "W" -> "w" [] c = "Z" -> "z"]

ToLower(s) == [i \in 1..Len(s) |-> IF s[i] \in DOMAIN LowerCase THEN LowerCase[s[i]] ELSE s[i]]

EqualFold(a, b) == ToLower(a) = ToLower(b)

RECURSIVE NumStr(_)
NumStr(n) ==
    LET d == <<"0", "1", "2", "3", "4", "5", "6", "7", "8", "9">>
    IN  IF n < 10 THEN d[n + 1] ELSE NumStr(n \div 10) \o d[(n % 10) + 1]

(* -------------------------------------------------------- dynamic values *)
Nil == [k |-> "nil", v |-> 0]
VBool(b) == [k |-> "bool", v |-> b]
VNum(n) == [k |-> "number", v |-> n]
VStr(s) == [k |-> "string", v |-> s]
VList(l) == [k |-> "list", v |-> l]
VMapAny(m) == [k |-> "map_any", v |-> m]
VMapStr(m) == [k |-> "map_str", v |-> m]

KeyOrder == << <<"a">>, <<"b">>, <<"c">> >>

SortedKeys(m) == SelectSeq(KeyOrder, LAMBDA key : key \in DOMAIN m)

(* fmt.Sprintf("%v", value) *)
RECURSIVE Sprint(_)
Sprint(value) ==
    CASE value.k = "nil" -> "<nil>"
      [] value.k = "bool" -> IF value.v THEN "true" ELSE "false"
      [] value.k = "number" -> NumStr(value.v)
      [] value.k = "string" -> Str(value.v)
      [] value.k = "list" ->
            "[" \o JoinStr([i \in 1..Len(value.v) |-> Sprint(value.v[i])], " ") \o "]"
      [] value.k = "map_any" ->
            LET ks == SortedKeys(value.v)
            IN  "map[" \o JoinStr([i \in 1..Len(ks) |->
                           Str(ks[i]) \o ":" \o Sprint(value.v[ks[i]])], " ") \o "]"
      [] value.k = "map_str" ->
            LET ks == SortedKeys(value.v)
            IN  "map[" \o JoinStr([i \in 1..Len(ks) |->
                           Str(ks[i]) \o ":" \o Str(value.v[ks[i]])], " ") \o "]"

Quote(text) == "\"" \o text \o "\""

(* the orders in which a range loop may visit the keys of a map *)
Perms(S) == {p \in [1..Cardinality(S) -> S] : \A x \in S : \E i \in DOMAIN p : p[i] = x}

IterOrders(value) ==
    IF value.k \in {"map_any", "map_str"} THEN Perms(DOMAIN value.v) ELSE {<<>>}

(* ------------------------------------------------------------- type tags *)
ObjWindowsConfig == "object({ provision_vm_agent = bool, enable_automatic_upgrades = bool })"
ObjImageReference == "object({ publisher = string, offer = string, sku = string, version = string })"
ObjOsDisk == "object({ name = string, caching = string, create_option = string, managed_disk_type = string })"
ObjectTags == {ObjWindowsConfig, ObjImageReference, ObjOsDisk}

VarPrefix == <<"v", "a", "r", ".">>

(* formatValue, case "list(string)", "set(string)", with a mismatched value
   wrapped like a set *)
formatValueListWrapped(value, varType) ==
    LET items == IF value.k # "list" THEN <<>>
                 ELSE [i \in 1..Len(value.v) |-> Quote(Sprint(value.v[i]))]
    IN  IF varType = "set(string)"
        THEN "toset([" \o JoinStr(items, ", ") \o "])"
        ELSE "[" \o JoinStr(items, ", ") \o "]"

(* formatValue, case "list(string)", "set(string)" *)
formatValueList(value, varType) ==
    IF value.k # "list" THEN "[]"
    ELSE LET items == [i \in 1..Len(value.v) |-> Quote(Sprint(value.v[i]))]
         IN  IF varType = "set(string)"
             THEN "toset([" \o JoinStr(items, ", ") \o "])"
             ELSE "[" \o JoinStr(items, ", ") \o "]"

(* template function "formatValue"; ord is the order in which the range loop
   of the map(string) case visits the keys *)
formatValue(value, varType, ord) ==
    CASE varType \in {"bool", "number"} -> Sprint(value)
      [] varType = "string" ->
            IF value.k = "string" /\ HasPrefix(value.v, VarPrefix)
            THEN Str(value.v)
            ELSE Quote(Sprint(value))
      [] varType \in {"list(string)", "set(string)"} -> formatValueList(value, varType)
      [] varType = "map(string)" ->
            LET entries ==
                  CASE value.k = "map_any" ->
                         [i \in 1..Len(ord) |->
                            Quote(Str(ord[i])) \o " = " \o Quote(Sprint(value.v[ord[i]]))]
                    [] value.k = "map_str" ->
                         [i \in 1..Len(ord) |->
                            Quote(Str(ord[i])) \o " = " \o Quote(Str(value.v[ord[i]]))]
                    [] OTHER -> <<>>
            IN  "{ " \o JoinStr(entries, ", ") \o " }"
      [] varType \in ObjectTags ->
            IF value.k = "string" THEN Str(value.v) ELSE "{}"
      [] varType = "tuple" ->
            IF value.k # "list" THEN "[]"
            ELSE LET items == [i \in 1..Len(value.v) |->
                                 IF value.v[i].k = "string"
                                 THEN Quote(Sprint(value.v[i]))
                                 ELSE Sprint(value.v[i])]
                 IN  "[" \o JoinStr(items, ", ") \o "]"
      [] OTHER -> Sprint(value)

(* template function "formatDefault"; ord is the order in which the range loop
   of the map(string) case or of the object case visits the keys *)
formatDefault(varDef, ord) ==
    CASE varDef.Type \in {"bool", "number"} -> Sprint(varDef.Default)
      [] varDef.Type = "string" ->
            IF varDef.Default.k = "string" /\ HasPrefix(varDef.Default.v, VarPrefix)
            THEN Str(varDef.Default.v)
            ELSE Quote(Sprint(varDef.Default))
      [] varDef.Type \in {"list(string)", "set(string)"} ->
            IF varDef.Default.k # "list" THEN "[]"
            ELSE LET list == varDef.Default.v
                     items == [i \in 1..Len(list) |-> Quote(Sprint(list[i]))]
                 IN  IF varDef.Type = "set(string)"
                     THEN "toset([" \o JoinStr(items, ", ") \o "])"
                     ELSE "[" \o JoinStr(items, ", ") \o "]"
      [] varDef.Type = "map(string)" ->
            LET v == varDef.Default.v
                entries ==
                  CASE varDef.Default.k = "map_any" ->
                         [i \in 1..Len(ord) |->
                            Quote(Str(ord[i])) \o " = " \o Quote(Sprint(v[ord[i]]))]
                    [] varDef.Default.k = "map_str" ->
                         [i \in 1..Len(ord) |->
                            Quote(Str(ord[i])) \o " = " \o Quote(Str(v[ord[i]]))]
                    [] OTHER -> <<>>
            IN  "{ " \o JoinStr(entries, ", ") \o " }"
      [] varDef.Type \in ObjectTags ->
            IF varDef.Default.k # "map_any" THEN "{}"
            ELSE LET objMap == varDef.Default.v
                     items == [i \in 1..Len(ord) |->
                                 IF objMap[ord[i]].k = "string"
                                 THEN Quote(Str(ord[i])) \o " = " \o Quote(Sprint(objMap[ord[i]]))
                                 ELSE Quote(Str(ord[i])) \o " = " \o Sprint(objMap[ord[i]])]
                 IN  "{ " \o JoinStr(items, ", ") \o " }"
      [] varDef.Type = "tuple" ->
            IF varDef.Default.k # "list" THEN "[]"
            ELSE LET tuple == varDef.Default.v
                     items == [i \in 1..Len(tuple) |->
                                 IF tuple[i].k = "string"
                                 THEN Quote(Sprint(tuple[i]))
                                 ELSE Sprint(tuple[i])]
                 IN  "[" \o JoinStr(items, ", ") \o "]"
      [] OTHER -> Sprint(varDef.Default)

(* ------------------------------------------------------------ file system *)
Join(path, elem) == IF elem = "" THEN path ELSE Append(path, elem)

Dir(path) == SubSeq(path, 1, Len(path) - 1)

(* os.MkdirAll: the directory and every missing parent *)
MkdirAll(ds, path) == ds \cup {SubSeq(path, 1, n) : n \in 1..Len(path)}

(* os.WriteFile: create or overwrite *)
WriteFile(fs, path, content) ==
    [p \in DOMAIN fs \cup {path} |-> IF p = path THEN content ELSE fs[p]]

NoFiles == [p \in {} |-> ""]

(* --------------------------------------------------------------- inputs *)
OrgNames == {<<>>, <<"o", "r", "g">>}
ProductNames == {<<>>, <<"s", "h", "o", "p">>}
ProviderNames ==
    { <<>>, <<"A", "W", "S">>, <<"a", "z", "u", "r", "e">>, <<"g", "c", "p">>,
      <<"d", "i", "g", "i", "t", "a", "l", "o", "c", "e", "a", "n">> }
CustomerNames == { <<"a", "c", "m", "e">>, <<" ", "b", "e", "t", "a", " ">>, <<"b", "e", "t", "a">> }
CustomerLists == UNION {[1..n -> CustomerNames] : n \in 0..MaxCustomers}

ProviderLists ==
    { << [Name |-> <<"a", "z", "u", "r", "e", "r", "m">>], [Name |-> <<"a", "w", "s">>],
         [Name |-> <<"g", "o", "o", "g", "l", "e">>] >>,
      << [Name |-> <<"A", "z", "u", "r", "e", "R", "M">>] >>,
      << [Name |-> <<>>] >> }

VariableLists ==
    { << [Name |-> "tags", Type |-> "map(string)",
          Default |-> VMapAny([key \in {<<"a">>, <<"b">>} |->
                                 IF key = <<"a">> THEN VStr(<<"1">>) ELSE VStr(<<"2">>)])] >>,
      << [Name |-> "location", Type |-> "string",
          Default |-> VStr(<<"v", "a", "r", ".", "l", "o", "c">>)] >> }

Requests ==
    [OrganisationName : OrgNames, ProductName : ProductNames,
     Provider : ProviderNames, Customers : CustomerLists]

Configs ==
    [Providers : ProviderLists, Environment : {"dev"}, Variables : VariableLists]

(* ---------------------------------------------------------------- state *)
VARIABLES
    req,        \* the GenerateRequest being served
    config,     \* what LoadConfig returns for it
    pc,         \* "start", "mkdirs", "render", "done": where GenerateTerraform is
    provider,   \* providerData, once resolved
    ci,         \* index of the customer being processed; 0 in single-product mode
    fi,         \* index of the next file of the entity's plan
    plan,       \* the files of the entity being processed, in render order
    data,       \* the entity's template data (the map prepareTemplateData built)
    dirs,       \* directories that exist under the output root
    files,      \* path -> content of the files under the output root
    log,        \* the writes of this call, in order, each with the data it was
                \* rendered from
    result,     \* "none" while running, "ok", or the error returned
    failed,     \* where the call failed: [ci, fi] (fi = 0: CreateDirectories)
    second,     \* TRUE while and after the same request is served a second time
    firstFiles, \* the files as the first call left them
    fin,        \* formatter check: the value, type tag and iteration orders
    outValue,   \* formatter check: what formatValue returned
    outDefault, \* formatter check: what formatDefault returned
    peer,       \* two requests served at once: req, pc, provider, ci, fi, plan,
                \* data, log, result and failed of the request that is not
                \* taking the step
    self        \* two requests served at once: 1 or 2, the request whose state
                \* req, pc, ..., failed hold

vars == <<req, config, pc, provider, ci, fi, plan, data, dirs, files, log, result, failed,
          second, firstFiles, fin, outValue, outDefault, peer, self>>

fmtVars == <<fin, outValue, outDefault>>

concVars == <<peer, self>>

NoProvider == [nil |-> TRUE]
NoData == [Environment |-> "", CustomerName |-> ""]
NoFailure == [ci |-> 0, fi |-> 0]
NoInput == [value |-> Nil, varType |-> "", ordValue |-> <<>>, ordDefault |-> <<>>]
NoPeer == [pc |-> "none"]

(* ------------------------------------------------------- generate.go *)
Aliases ==
    [name \in {"azure", "aws", "gcp", "azurerm", "google"} |->
        CASE name = "azure" -> <<"a", "z", "u", "r", "e", "r", "m">>
          [] name = "aws" -> <<"a", "w", "s">>
          [] name = "gcp" -> <<"g", "o", "o", "g", "l", "e">>
          [] name = "azurerm" -> <<"a", "z", "u", "r", "e", "r", "m">>
          [] name = "google" -> <<"g", "o", "o", "g", "l", "e">>]

(* a missing key of a Go map reads as the zero value "" *)
AliasOf(name) == IF Str(name) \in DOMAIN Aliases THEN Aliases[Str(name)] ELSE <<>>

filterProviderData(providers, providerName) ==
    LET normalizedProvider == AliasOf(ToLower(providerName))
        hits == {i \in 1..Len(providers) : EqualFold(providers[i].Name, normalizedProvider)}
    IN  IF hits = {} THEN NoProvider
        ELSE providers[CHOOSE i \in hits : \A h \in hits : i <= h]

(* the data with the environment fixed instead of taken from the configuration *)
prepareTemplateDataFixedEnv(r, c, prov, customerName) ==
    [Provider |-> Str(prov.Name),
     OrganisationName |-> Str(r.OrganisationName),
     ProductName |-> Str(r.ProductName),
     CustomerName |-> customerName,
     Environment |-> "prod",
     Variables |-> c.Variables]

prepareTemplateData(r, c, prov, customerName) ==
    [Provider |-> Str(prov.Name),
     OrganisationName |-> Str(r.OrganisationName),
     ProductName |-> Str(r.ProductName),
     CustomerName |-> customerName,
     Environment |-> c.Environment,
     Variables |-> c.Variables]

basePath(r) == Join(Join(<<"output">>, Str(r.Provider)), Str(r.OrganisationName))

(* the four files of generateTerraformFiles, in the order of its loop *)
generateTerraformFiles(path, prov) ==
    << [Template |-> <<"templates", "generic", "providers.tf.tmpl">>,
        Dest |-> Join(path, "providers.tf"), Env |-> ""],
       [Template |-> Join(Join(<<"templates">>, prov), "main.tf.tmpl"),
        Dest |-> Join(path, "main.tf"), Env |-> ""],
       [Template |-> <<"templates", "generic", "variables.tf.tmpl">>,
        Dest |-> Join(path, "variables.tf"), Env |-> ""],
       [Template |-> <<"templates", "generic", "vars.tfvars.tmpl">>,
        Dest |-> Join(path, "vars.tfvars"), Env |-> ""] >>

environmentsProdFirst == <<"prod", "nonprod">>

environments == <<"nonprod", "prod">>

(* a product planned like a customer: a vars/ file beside each backend/ file *)
generateBackendTfvarsFilesWithVars(path, productName) ==
    [n \in 1..(2 * Len(environments)) |->
        [Template |-> IF n % 2 = 1 THEN <<"templates", "generic", "backend.tfvars.tmpl">>
                      ELSE <<"templates", "generic", "vars.tfvars.tmpl">>,
         Dest |-> Join(Join(path, IF n % 2 = 1 THEN "backend" ELSE "vars"),
                       productName \o "_" \o environments[(n + 1) \div 2] \o ".tfvars"),
         Env |-> environments[(n + 1) \div 2]]]

(* the files of generateBackendTfvarsFiles, in the order of its loop; Env is the
   value data["Environment"] holds when the file is rendered *)
generateBackendTfvarsFiles(path, productName) ==
    [e \in 1..Len(environments) |->
        [Template |-> <<"templates", "generic", "backend.tfvars.tmpl">>,
         Dest |-> Join(Join(path, "backend"),
                       productName \o "_" \o environments[e] \o ".tfvars"),
         Env |-> environments[e]]]

(* the files of generateBackendAndVarsTfvarsFiles, in the order of its loops *)
generateBackendAndVarsTfvarsFiles(path, customerName) ==
    [n \in 1..(2 * Len(environments)) |->
        LET env == environments[(n + 1) \div 2]
        IN  IF n % 2 = 1
            THEN [Template |-> <<"templates", "generic", "backend.tfvars.tmpl">>,
                  Dest |-> Join(Join(path, "backend"),
                                customerName \o "_" \o env \o ".tfvars"),
                  Env |-> env]
            ELSE [Template |-> <<"templates", "generic", "vars.tfvars.tmpl">>,
                  Dest |-> Join(Join(path, "vars"),
                                customerName \o "_" \o env \o ".tfvars"),
                  Env |-> env]]

(* processCustomers: the k-th customer's name and path *)
customerAt(r, k) == Str(TrimSpace(r.Customers[k]))
customerPath(r, k) == Join(basePath(r), customerAt(r, k))
productPath(r) == Join(basePath(r), Str(r.ProductName))

(* generateProductFiles: every file of the product, in order *)
generateProductFiles(r) ==
    generateTerraformFiles(productPath(r), Str(r.Provider))
        \o generateBackendTfvarsFiles(productPath(r), Str(r.ProductName))

(* generateCustomerFiles: every file of the k-th customer, in order *)
generateCustomerFiles(r, k) ==
    generateTerraformFiles(customerPath(r, k), Str(r.Provider))
        \o generateBackendAndVarsTfvarsFiles(customerPath(r, k), customerAt(r, k))

EntityFiles(r, k) == IF k = 0 THEN generateProductFiles(r) ELSE generateCustomerFiles(r, k)

(* the directories GenerateTerraform / processCustomers create for the entity *)
EntityDirs(r, k) ==
    IF k = 0 THEN << Join(productPath(r), "backend") >>
    ELSE << Join(customerPath(r, k), "backend"), Join(customerPath(r, k), "vars") >>

(* ------------------------------------------------------ filesystem.go *)
(* What a template writes.  Every template prints the fields of the data
   context; variables.tf.tmpl also prints formatDefault of every variable, in
   the sorted order in which a template ranges over a map.  ords[i] is the
   order in which the formatter's range loop visits the keys of variable i. *)
TemplateText(template, d, ords) ==
    [Template |-> template,
     Provider |-> d.Provider,
     OrganisationName |-> d.OrganisationName,
     ProductName |-> d.ProductName,
     CustomerName |-> d.CustomerName,
     Environment |-> d.Environment,
     Text |-> IF template = <<"templates", "generic", "variables.tf.tmpl">>
              THEN JoinStr([i \in 1..Len(d.Variables) |->
                              d.Variables[i].Name \o " = "
                                \o formatDefault(d.Variables[i], ords[i])], "\n")
              ELSE ""]

RangeOrders(variables) ==
    {o \in [1..Len(variables) -> UNION {IterOrders(variables[i].Default) : i \in 1..Len(variables)}] :
        \A i \in 1..Len(variables) : o[i] \in IterOrders(variables[i].Default)}

ErrRequired == "organisation_name, product_name, and provider are required"
ErrProvider == "specified provider not found in configuration"
ErrConfig == "LoadConfig error"
ErrMkdir == "CreateDirectories error"
ErrRender == "GenerateFileFromTemplate error"

(* the stages at which GenerateFileFromTemplate can return an error *)
RenderStages == {"parse", "mkdir", "execute", "write"}

Fail(err, at) ==
    /\ result' = err
    /\ failed' = at
    /\ pc' = "done"

(* ------------------------------------------------------------- actions *)
Init ==
    /\ req \in Requests
    /\ config \in Configs
    /\ pc = "start"
    /\ provider = NoProvider
    /\ ci = 0
    /\ fi = 0
    /\ plan = <<>>
    /\ data = NoData
    /\ dirs = {}
    /\ files = NoFiles
    /\ log = <<>>
    /\ result = "none"
    /\ failed = NoFailure
    /\ second = FALSE
    /\ firstFiles = NoFiles
    /\ fin = NoInput
    /\ outValue = ""
    /\ outDefault = ""
    /\ peer = NoPeer
    /\ self = 1

(* GenerateTerraform, line 34: a required field is empty *)
RejectRequest ==
    /\ pc = "start"
    /\ req.OrganisationName = <<>> \/ req.ProductName = <<>> \/ req.Provider = <<>>
    /\ Fail(ErrRequired, NoFailure)
    /\ UNCHANGED <<req, config, provider, ci, fi, plan, data, dirs, files, log, second, firstFiles>>
    /\ UNCHANGED fmtVars
    /\ UNCHANGED concVars

(* GenerateTerraform, lines 39-42: LoadConfig returns an error *)
LoadConfigFails ==
    /\ pc = "start"
    /\ ~(req.OrganisationName = <<>> \/ req.ProductName = <<>> \/ req.Provider = <<>>)
    /\ Fail(ErrConfig, NoFailure)
    /\ UNCHANGED <<req, config, provider, ci, fi, plan, data, dirs, files, log, second, firstFiles>>
    /\ UNCHANGED fmtVars
    /\ UNCHANGED concVars

(* the provider is looked up only after the organisation's directory is made *)
ProviderNotFoundAfterMkdir ==
    /\ pc = "start"
    /\ ~(req.OrganisationName = <<>> \/ req.ProductName = <<>> \/ req.Provider = <<>>)
    /\ filterProviderData(config.Providers, req.Provider) = NoProvider
    /\ dirs' = MkdirAll(dirs, basePath(req))
    /\ Fail(ErrProvider, NoFailure)
    /\ UNCHANGED <<req, config, provider, ci, fi, plan, data, files, log, second, firstFiles>>
    /\ UNCHANGED fmtVars
    /\ UNCHANGED concVars

(* GenerateTerraform, lines 45-48: the provider does not resolve *)
ProviderNotFound ==
    /\ pc = "start"
    /\ ~(req.OrganisationName = <<>> \/ req.ProductName = <<>> \/ req.Provider = <<>>)
    /\ filterProviderData(config.Providers, req.Provider) = NoProvider
    /\ Fail(ErrProvider, NoFailure)
    /\ UNCHANGED <<req, config, provider, ci, fi, plan, data, dirs, files, log, second, firstFiles>>
    /\ UNCHANGED fmtVars
    /\ UNCHANGED concVars

(* GenerateTerraform, lines 45-57: the provider resolves; customer mode or
   single-product mode is selected *)
SelectMode ==
    /\ pc = "start"
    /\ ~(req.OrganisationName = <<>> \/ req.ProductName = <<>> \/ req.Provider = <<>>)
    /\ filterProviderData(config.Providers, req.Provider) # NoProvider
    /\ provider' = filterProviderData(config.Providers, req.Provider)
    /\ ci' = IF Len(req.Customers) > 0 THEN 1 ELSE 0
    /\ fi' = 0
    /\ pc' = "mkdirs"
    /\ UNCHANGED <<req, config, plan, data, dirs, files, log, result, failed, second, firstFiles>>
    /\ UNCHANGED fmtVars
    /\ UNCHANGED concVars

(* the data context is built once, for the first customer, and handed on to
   the next customer with only the customer's name replaced *)
CreateDirectoriesSharedData ==
    /\ pc = "mkdirs"
    /\ LET paths == EntityDirs(req, ci)
       IN  dirs' = UNION ({dirs} \cup {MkdirAll(dirs, paths[i]) : i \in 1..Len(paths)})
    /\ data' = IF ci <= 1
               THEN prepareTemplateData(req, config, provider,
                                        IF ci = 0 THEN "" ELSE customerAt(req, ci))
               ELSE [data EXCEPT !.CustomerName = customerAt(req, ci)]
    /\ plan' = EntityFiles(req, ci)
    /\ fi' = 1
    /\ pc' = "render"
    /\ UNCHANGED <<req, config, provider, ci, files, log, result, failed, second, firstFiles>>
    /\ UNCHANGED fmtVars
    /\ UNCHANGED concVars

(* CreateDirectories succeeds for the entity; generate*Files then builds the
   entity's template data *)
CreateDirectories ==
    /\ pc = "mkdirs"
    /\ LET paths == EntityDirs(req, ci)
       IN  dirs' = UNION ({dirs} \cup {MkdirAll(dirs, paths[i]) : i \in 1..Len(paths)})
    /\ data' = prepareTemplateData(req, config, provider,
                                   IF ci = 0 THEN "" ELSE customerAt(req, ci))
    /\ plan' = EntityFiles(req, ci)
    /\ fi' = 1
    /\ pc' = "render"
    /\ UNCHANGED <<req, config, provider, ci, files, log, result, failed, second, firstFiles>>
    /\ UNCHANGED fmtVars
    /\ UNCHANGED concVars

(* CreateDirectories returns an error at its n+1st path *)
CreateDirectoriesFails ==
    /\ pc = "mkdirs"
    /\ \E n \in 0..(Len(EntityDirs(req, ci)) - 1) :
          dirs' = UNION ({dirs} \cup {MkdirAll(dirs, EntityDirs(req, ci)[i]) : i \in 1..n})
    /\ Fail(ErrMkdir, [ci |-> ci, fi |-> 0])
    /\ UNCHANGED <<req, config, provider, ci, fi, plan, data, files, log, second, firstFiles>>
    /\ UNCHANGED fmtVars
    /\ UNCHANGED concVars

(* where the call goes after the entity's file number fi is written *)
Advance ==
    IF fi < Len(plan)
    THEN /\ fi' = fi + 1
         /\ UNCHANGED <<pc, ci, result>>
    ELSE IF ci # 0 /\ ci < Len(req.Customers)
    THEN /\ ci' = ci + 1
         /\ fi' = 0
         /\ pc' = "mkdirs"
         /\ UNCHANGED result
    ELSE /\ pc' = "done"
         /\ result' = "ok"
         /\ UNCHANGED <<ci, fi>>

(* one turn of a render loop: the per-environment loops first assign
   data["Environment"]; GenerateFileFromTemplate then parses the template,
   creates the destination directory, executes the template and writes *)
RenderFile ==
    /\ pc = "render"
    /\ LET f == plan[fi]
           d == IF f.Env = "" THEN data ELSE [data EXCEPT !.Environment = f.Env]
       IN  /\ data' = d
           /\ dirs' = MkdirAll(dirs, Dir(f.Dest))
           /\ \E ords \in RangeOrders(d.Variables) :
                 /\ files' = WriteFile(files, f.Dest, TemplateText(f.Template, d, ords))
                 /\ log' = Append(log, [Dest |-> f.Dest, Entity |-> ci,
                                        Environment |-> d.Environment,
                                        CustomerName |-> d.CustomerName,
                                        Content |-> TemplateText(f.Template, d, ords)])
    /\ Advance
    /\ UNCHANGED <<req, config, provider, plan, failed, second, firstFiles>>
    /\ UNCHANGED fmtVars
    /\ UNCHANGED concVars

(* GenerateFileFromTemplate returns an error and the entity's files written so
   far are removed before the error is returned *)
RenderFileFailsCleanup ==
    /\ pc = "render"
    /\ data' = data
    /\ dirs' = dirs
    /\ files' = [p \in {q \in DOMAIN files : \A i \in 1..Len(log) :
                                                log[i].Entity = ci => log[i].Dest # q} |-> files[p]]
    /\ Fail(ErrRender, [ci |-> ci, fi |-> fi])
    /\ UNCHANGED <<req, config, provider, ci, fi, plan, log, second, firstFiles>>
    /\ UNCHANGED fmtVars
    /\ UNCHANGED concVars

(* GenerateFileFromTemplate returns an error; every caller returns it at once.
   The destination directory exists if the call got past os.MkdirAll; a failing
   os.WriteFile is taken to fail before it touches the destination file. *)
RenderFileFails ==
    /\ pc = "render"
    /\ LET f == plan[fi]
           d == IF f.Env = "" THEN data ELSE [data EXCEPT !.Environment = f.Env]
       IN  /\ data' = d
           /\ \E stage \in RenderStages :
                 dirs' = IF stage \in {"execute", "write"}
                         THEN MkdirAll(dirs, Dir(f.Dest))
                         ELSE dirs
    /\ Fail(ErrRender, [ci |-> ci, fi |-> fi])
    /\ UNCHANGED <<req, config, provider, ci, fi, plan, files, log, second, firstFiles>>
    /\ UNCHANGED fmtVars
    /\ UNCHANGED concVars

(* the same request is served again, over the tree the first call left *)
Rerun ==
    /\ pc = "done"
    /\ result = "ok"
    /\ ~second
    /\ second' = TRUE
    /\ firstFiles' = files
    /\ pc' = "start"
    /\ provider' = NoProvider
    /\ ci' = 0
    /\ fi' = 0
    /\ plan' = <<>>
    /\ data' = NoData
    /\ log' = <<>>
    /\ result' = "none"
    /\ UNCHANGED <<req, config, dirs, files, failed>>
    /\ UNCHANGED fmtVars
    /\ UNCHANGED concVars

Next ==
    \/ RejectRequest
    \/ LoadConfigFails
    \/ ProviderNotFound
    \/ SelectMode
    \/ CreateDirectories
    \/ CreateDirectoriesFails
    \/ RenderFile
    \/ RenderFileFails
    \/ Rerun

Spec == Init /\ [][Next]_vars

(* ------------------------------------------------ the formatters alone *)
FmtScalars == {VStr(<<"1">>), VNum(2)}
FmtStrings == {<<"1">>, <<"2">>}
FmtKeySets == {S \in SUBSET {KeyOrder[i] : i \in 1..Len(KeyOrder)} : Cardinality(S) <= MaxItems}

FmtValues ==
    {Nil, VBool(TRUE), VNum(3),
     VStr(<<"b", "a", "r">>), VStr(<<"v", "a", "r", ".", "f", "o", "o">>), VStr(<<"v", "a", "r">>)}
      \cup {VList(l) : l \in UNION {[1..n -> FmtScalars] : n \in 0..MaxItems}}
      \cup {VMapAny(m) : m \in UNION {[S -> FmtScalars] : S \in FmtKeySets}}
      \cup {VMapStr(m) : m \in UNION {[S -> FmtStrings] : S \in FmtKeySets}}

FmtTags ==
    {"bool", "number", "string", "list(string)", "set(string)", "map(string)", "tuple", "any"}
      \cup ObjectTags

InitFmt ==
    /\ \E value \in FmtValues, varType \in FmtTags :
          \E ordValue \in IterOrders(value), ordDefault \in IterOrders(value) :
             fin = [value |-> value, varType |-> varType,
                    ordValue |-> ordValue, ordDefault |-> ordDefault]
    /\ outValue = ""
    /\ outDefault = ""
    /\ pc = "format"
    /\ req = [OrganisationName |-> <<>>, ProductName |-> <<>>, Provider |-> <<>>,
              Customers |-> <<>>]
    /\ config = [Providers |-> <<>>, Environment |-> "", Variables |-> <<>>]
    /\ provider = NoProvider
    /\ ci = 0
    /\ fi = 0
    /\ plan = <<>>
    /\ data = NoData
    /\ dirs = {}
    /\ files = NoFiles
    /\ log = <<>>
    /\ result = "none"
    /\ failed = NoFailure
    /\ second = FALSE
    /\ firstFiles = NoFiles
    /\ peer = NoPeer
    /\ self = 1

(* a template calls formatValue on a value and its type tag, and formatDefault
   on the Variable with that type and that default *)
Format ==
    /\ pc = "format"
    /\ outValue' = formatValue(fin.value, fin.varType, fin.ordValue)
    /\ outDefault' = formatDefault([Type |-> fin.varType, Default |-> fin.value],
                                   fin.ordDefault)
    /\ pc' = "formatted"
    /\ UNCHANGED <<req, config, provider, ci, fi, plan, data, dirs, files, log, result,
                   failed, second, firstFiles, fin>>
    /\ UNCHANGED concVars

NextFmt == Format

SpecFmt == InitFmt /\ [][NextFmt]_vars

(* ------------------------------------------- two requests served at once *)
(* GenerateTerraformHandler runs for each HTTP request on its own goroutine and
   calls GenerateTerraform; both requests read the same configuration file and
   write under the same output directory.  The request taking steps is the one
   held in req, pc, ..., failed; the other one is held in peer. *)
ConcProductNames == {<<>>, <<"s", "h", "o", "p">>, <<"a", "c", "m", "e">>}
ConcProviderNames ==
    { <<"A", "W", "S">>, <<"d", "i", "g", "i", "t", "a", "l", "o", "c", "e", "a", "n">> }
ConcCustomerLists == { <<>>, << <<"a", "c", "m", "e">> >> }

ConcRequests ==
    [OrganisationName : {<<"o", "r", "g">>}, ProductName : ConcProductNames,
     Provider : ConcProviderNames, Customers : ConcCustomerLists]

ConcConfigs ==
    [Providers : { << [Name |-> <<"a", "z", "u", "r", "e", "r", "m">>], [Name |-> <<"a", "w", "s">>],
                      [Name |-> <<"g", "o", "o", "g", "l", "e">>] >> },
     Environment : {"dev"}, Variables : VariableLists]

(* the state of a request that has not taken its first step *)
Fresh(r) ==
    [req |-> r, pc |-> "start", provider |-> NoProvider, ci |-> 0, fi |-> 0, plan |-> <<>>,
     data |-> NoData, log |-> <<>>, result |-> "none", failed |-> NoFailure]

InitConc ==
    /\ req \in ConcRequests
    /\ config \in ConcConfigs
    /\ pc = "start"
    /\ provider = NoProvider
    /\ ci = 0
    /\ fi = 0
    /\ plan = <<>>
    /\ data = NoData
    /\ dirs = {}
    /\ files = NoFiles
    /\ log = <<>>
    /\ result = "none"
    /\ failed = NoFailure
    /\ second = FALSE
    /\ firstFiles = NoFiles
    /\ fin = NoInput
    /\ outValue = ""
    /\ outDefault = ""
    /\ peer \in {Fresh(r) : r \in ConcRequests}
    /\ self = 1

(* GenerateTerraform holds a lock from its first line to its return: the other
   request takes steps only when this one has not begun or has returned *)
YieldLocked ==
    /\ pc \in {"start", "done"}
    /\ peer.pc # "done"
    /\ peer' = [req |-> req, pc |-> pc, provider |-> provider, ci |-> ci, fi |-> fi,
                plan |-> plan, data |-> data, log |-> log, result |-> result,
                failed |-> failed]
    /\ req' = peer.req
    /\ pc' = peer.pc
    /\ provider' = peer.provider
    /\ ci' = peer.ci
    /\ fi' = peer.fi
    /\ plan' = peer.plan
    /\ data' = peer.data
    /\ log' = peer.log
    /\ result' = peer.result
    /\ failed' = peer.failed
    /\ self' = 3 - self
    /\ UNCHANGED <<config, dirs, files, second, firstFiles>>
    /\ UNCHANGED fmtVars

(* the other request's goroutine takes the next steps: wherever this request
   is, nothing in GenerateTerraform or GenerateFileFromTemplate makes the other
   one wait.  The directories and the files are the only state they share. *)
Yield ==
    /\ peer.pc # "done"
    /\ peer' = [req |-> req, pc |-> pc, provider |-> provider, ci |-> ci, fi |-> fi,
                plan |-> plan, data |-> data, log |-> log, result |-> result,
                failed |-> failed]
    /\ req' = peer.req
    /\ pc' = peer.pc
    /\ provider' = peer.provider
    /\ ci' = peer.ci
    /\ fi' = peer.fi
    /\ plan' = peer.plan
    /\ data' = peer.data
    /\ log' = peer.log
    /\ result' = peer.result
    /\ failed' = peer.failed
    /\ self' = 3 - self
    /\ UNCHANGED <<config, dirs, files, second, firstFiles>>
    /\ UNCHANGED fmtVars

NextConc ==
    \/ RejectRequest
    \/ LoadConfigFails
    \/ ProviderNotFound
    \/ SelectMode
    \/ CreateDirectories
    \/ CreateDirectoriesFails
    \/ RenderFile
    \/ RenderFileFails
    \/ Yield

SpecConc == InitConc /\ [][NextConc]_vars

(* =============================================================== claims *)
(* what the claims expect, written out independently of the operators above *)
ExpectedName(raw) ==
    CASE raw = <<"a", "c", "m", "e">> -> "acme"
      [] raw = <<" ", "b", "e", "t", "a", " ">> -> "beta"
      [] raw = <<"b", "e", "t", "a">> -> "beta"

ExpectedText(raw) ==
    CASE raw = <<"o", "r", "g">> -> "org"
      [] raw = <<"s", "h", "o", "p">> -> "shop"
      [] raw = <<"A", "W", "S">> -> "AWS"
      [] raw = <<"a", "z", "u", "r", "e">> -> "azure"
      [] raw = <<"g", "c", "p">> -> "gcp"
      [] raw = <<"d", "i", "g", "i", "t", "a", "l", "o", "c", "e", "a", "n">> -> "digitalocean"
      [] raw = <<>> -> ""

ExpectedRoot(name) ==
    <<"output", ExpectedText(req.Provider), ExpectedText(req.OrganisationName), name>>

(* the files of a customer, in the order the claims give *)
ExpectedCustomerFiles(name) ==
    LET root == ExpectedRoot(name)
    IN  << root \o <<"providers.tf">>,
           root \o <<"main.tf">>,
           root \o <<"variables.tf">>,
           root \o <<"vars.tfvars">>,
           root \o <<"backend", name \o "_nonprod.tfvars">>,
           root \o <<"vars", name \o "_nonprod.tfvars">>,
           root \o <<"backend", name \o "_prod.tfvars">>,
           root \o <<"vars", name \o "_prod.tfvars">> >>

(* the files of the product, in the order the claims give *)
ExpectedProductFiles(name) ==
    LET root == ExpectedRoot(name)
    IN  << root \o <<"providers.tf">>,
           root \o <<"main.tf">>,
           root \o <<"variables.tf">>,
           root \o <<"vars.tfvars">>,
           root \o <<"backend", name \o "_nonprod.tfvars">>,
           root \o <<"backend", name \o "_prod.tfvars">> >>

Range(s) == {s[i] : i \in 1..Len(s)}
WritesOf(k) == {i \in 1..Len(log) : log[i].Entity = k}
Succeeded == pc = "done" /\ result = "ok"
RequiredMissing == req.OrganisationName = <<>> \/ req.ProductName = <<>> \/ req.Provider = <<>>

(* C1: when a request with customers succeeds, each customer has exactly 8
   written files under output/<provider>/<organisation>/<trimmed customer>: the
   4 base files, backend/<c>_nonprod.tfvars, backend/<c>_prod.tfvars,
   vars/<c>_nonprod.tfvars and vars/<c>_prod.tfvars, <c> being the request's
   name without its surrounding white space. *)
C1_CustomerFiles ==
    (Succeeded /\ Len(req.Customers) > 0) =>
        \A k \in 1..Len(req.Customers) :
            LET expected == Range(ExpectedCustomerFiles(ExpectedName(req.Customers[k])))
            IN  /\ Cardinality(WritesOf(k)) = 8
                /\ {log[i].Dest : i \in WritesOf(k)} = expected
                /\ expected \subseteq DOMAIN files

C1_Witness ==
    /\ Succeeded
    /\ req.Customers = << <<"a", "c", "m", "e">>, <<" ", "b", "e", "t", "a", " ">> >>
    /\ Len(log) = 16
    /\ <<"output", "azure", "org", "beta", "vars", "beta_prod.tfvars">> \in DOMAIN files

(* C2: when a request without customers succeeds, exactly 6 files are written,
   all under output/<provider>/<organisation>/<product>: the 4 base files and
   backend/<product>_nonprod.tfvars, backend/<product>_prod.tfvars; there is no
   vars/ directory and no file under vars/. *)
C2_ProductFiles ==
    (Succeeded /\ Len(req.Customers) = 0) =>
        LET expected == Range(ExpectedProductFiles(ExpectedText(req.ProductName)))
        IN  /\ Len(log) = 6
            /\ {log[i].Dest : i \in 1..Len(log)} = expected
            /\ DOMAIN files = expected
            /\ \A d \in dirs : "vars" \notin Range(d)
            /\ \A p \in DOMAIN files : "vars" \notin Range(Dir(p))

C2_Witness ==
    /\ Succeeded
    /\ req.Customers = <<>>
    /\ <<"output", "AWS", "org", "shop", "backend", "shop_prod.tfvars">> \in DOMAIN files
    /\ <<"output", "AWS", "org", "shop", "backend">> \in dirs

(* C3: in customer mode, when CreateDirectories or a render fails for the k-th
   customer, the error is returned at once: the writes made are exactly those
   of customers 1..k-1 and the files of customer k before the failing one, in
   order; nothing is written and no directory made for a later customer; and
   every file written is in place with the content it was written with. *)
C3_FailFast ==
    (pc = "done" /\ result \in {ErrMkdir, ErrRender} /\ failed.ci >= 1) =>
        LET k == failed.ci
            n == 8 * (k - 1) + (IF failed.fi = 0 THEN 0 ELSE failed.fi - 1)
            LastWrite(p) == CHOOSE i \in 1..Len(log) :
                               /\ log[i].Dest = p
                               /\ \A h \in 1..Len(log) : log[h].Dest = p => h <= i
        IN  /\ Len(log) = n
            /\ \A c \in 1..k :
                  LET expected == ExpectedCustomerFiles(ExpectedName(req.Customers[c]))
                  IN  \A m \in 1..8 :
                         8 * (c - 1) + m <= n =>
                            /\ log[8 * (c - 1) + m].Entity = c
                            /\ log[8 * (c - 1) + m].Dest = expected[m]
                            /\ expected[m] \in DOMAIN files
            /\ \A p \in DOMAIN files :
                  IF \E i \in 1..Len(log) : log[i].Dest = p
                  THEN files[p] = log[LastWrite(p)].Content
                  ELSE p \in DOMAIN firstFiles /\ files[p] = firstFiles[p]
            /\ ~second =>
                  \A d \in dirs : \E c \in 1..k :
                     LET root == ExpectedRoot(ExpectedName(req.Customers[c]))
                     IN  \/ d \in {root \o <<"backend">>, root \o <<"vars">>}
                         \/ d \in {SubSeq(root, 1, m) : m \in 1..Len(root)}

C3_Witness ==
    /\ pc = "done"
    /\ result = ErrRender
    /\ Len(req.Customers) = 2
    /\ failed = [ci |-> 2, fi |-> 3]
    /\ Len(log) = 10
    /\ ~second

(* C4: a request with an empty organisation, product or provider name, or
   whose provider does not resolve to a configured provider, returns an error
   and, when it returns, has created no directory and written no file. *)
C4_NothingWritten ==
    /\ (pc = "done" /\ RequiredMissing) => result = ErrRequired
    /\ (pc = "done" /\ ~RequiredMissing
          /\ filterProviderData(config.Providers, req.Provider) = NoProvider) =>
             result \in {ErrProvider, ErrConfig}
    /\ result \in {ErrRequired, ErrProvider} =>
          /\ pc = "done"
          /\ dirs = {}
          /\ files = NoFiles
          /\ log = <<>>

C4_Witness ==
    /\ pc = "done"
    /\ result = ErrProvider
    /\ ExpectedText(req.Provider) = "digitalocean"
    /\ dirs = {}

(* the alias table as the specification gives it *)
ExpectedAlias ==
    [name \in {"azure", "aws", "gcp", "azurerm", "google"} |->
        CASE name = "azure" -> "azurerm" [] name = "aws" -> "aws" [] name = "gcp" -> "google"
          [] name = "azurerm" -> "azurerm" [] name = "google" -> "google"]

(* C5: the provider name resolves, whatever its case, through the alias table
   to the configured provider of that canonical name; a name that is no key of
   the alias table resolves to no provider, whatever providers are configured,
   and the request fails with the provider-not-found error. *)
C5_AliasTableOnly ==
    (pc # "start" /\ ~RequiredMissing /\ result # ErrConfig) =>
        LET name == Str(ToLower(req.Provider))
            configured == {Str(ToLower(config.Providers[i].Name)) : i \in 1..Len(config.Providers)}
        IN  IF name \in DOMAIN ExpectedAlias /\ ExpectedAlias[name] \in configured
            THEN result # ErrProvider /\ Str(ToLower(provider.Name)) = ExpectedAlias[name]
            ELSE result = ErrProvider

(* C6: the writes of a successful request are totally ordered: customers in
   request order; within an entity providers.tf, main.tf, variables.tf,
   vars.tfvars, then the nonprod files, then the prod files; within one
   environment of a customer the backend/ file before the vars/ file. *)
C6_WriteOrder ==
    Succeeded =>
        IF Len(req.Customers) = 0
        THEN [i \in 1..Len(log) |-> log[i].Dest]
                = ExpectedProductFiles(ExpectedText(req.ProductName))
        ELSE /\ Len(log) = 8 * Len(req.Customers)
             /\ \A c \in 1..Len(req.Customers) :
                   [m \in 1..8 |-> log[8 * (c - 1) + m].Dest]
                      = ExpectedCustomerFiles(ExpectedName(req.Customers[c]))

C6_Witness ==
    /\ Succeeded
    /\ Len(req.Customers) = 2
    /\ req.Customers[1] # req.Customers[2]
    /\ Len(log) = 16
    /\ log[8].Entity = 1
    /\ log[9].Entity = 2

(* C7: serving the same request again over the tree a first successful call
   left rewrites every file with the same content, also a file whose content
   comes from formatting a map(string) or an object value of two or more keys. *)
C7_Idempotent ==
    (second /\ Succeeded) => files = firstFiles

(* C8: a value that is absent or is no sequence is formatted as [] under
   list(string) and as toset([]) under set(string), by formatValue and by
   formatDefault alike. *)
C8_EmptyLiterals ==
    (pc = "formatted" /\ fin.value.k # "list") =>
        /\ fin.varType = "list(string)" => outValue = "[]" /\ outDefault = "[]"
        /\ fin.varType = "set(string)" => outValue = "toset([])" /\ outDefault = "toset([])"

(* C9 as stated: for every type tag and every value formatValue(value, tag)
   returns the text formatDefault returns for a Variable of that type and
   default. *)
C9_SameText ==
    pc = "formatted" => outValue = outDefault

(* C9 amended: for every type tag but the three object tags the two formatters
   return the same text, a map(string) value being written by each in the
   order its own range loop visits the keys; for the three object tags
   formatValue returns a string value as it is and {} for any other value,
   while formatDefault returns {} for anything but a map[string]interface{}
   and the map's "key" = value fields for one, which is never what formatValue
   returns for it. *)
C9_SameTextButObjects ==
    pc = "formatted" =>
        /\ (fin.varType \notin ObjectTags
              /\ (fin.varType = "map(string)" => fin.ordValue = fin.ordDefault))
              => outValue = outDefault
        /\ fin.varType \in ObjectTags =>
              /\ outValue = IF fin.value.k = "string" THEN Str(fin.value.v) ELSE "{}"
              /\ fin.value.k # "map_any" => outDefault = "{}"
              /\ fin.value.k = "map_any" => outDefault # outValue

C9_Witness ==
    /\ pc = "formatted"
    /\ fin.varType = ObjImageReference
    /\ fin.value.k = "map_any"
    /\ DOMAIN fin.value.v = {<<"a">>, <<"b">>}
    /\ outValue = "{}"
    /\ outDefault = "{ \"a\" = \"1\", \"b\" = 2 }"

(* C10: every <name>_<env>.tfvars file is rendered with "Environment" equal
   to that env; the four base files of the entity are rendered before, with
   "Environment" equal to the configuration's value; and when the planning of
   an entity has completed without error its data's "Environment" is prod. *)
C10_Environment ==
    /\ \A i \in 1..Len(log) :
          LET file == log[i].Dest[Len(log[i].Dest)]
              name == IF log[i].Entity = 0 THEN ExpectedText(req.ProductName)
                      ELSE ExpectedName(req.Customers[log[i].Entity])
          IN  /\ file = name \o "_nonprod.tfvars" => log[i].Environment = "nonprod"
              /\ file = name \o "_prod.tfvars" => log[i].Environment = "prod"
              /\ file \in {"providers.tf", "main.tf", "variables.tf", "vars.tfvars"} =>
                    /\ log[i].Environment = config.Environment
                    /\ \A h \in 1..i :
                          log[h].Entity = log[i].Entity =>
                             log[h].Dest[Len(log[h].Dest)]
                                \in {"providers.tf", "main.tf", "variables.tf", "vars.tfvars"}
              /\ file \in {"providers.tf", "main.tf", "variables.tf", "vars.tfvars",
                           name \o "_nonprod.tfvars", name \o "_prod.tfvars"}
    /\ (Succeeded \/ (pc = "mkdirs" /\ ci >= 2)) => data.Environment = "prod"

C10_Witness ==
    /\ Succeeded
    /\ Len(req.Customers) = 2
    /\ config.Environment = "dev"
    /\ data.Environment = "prod"
    /\ log[12].Environment = "dev"
    /\ log[13].Environment = "nonprod"
    /\ log[16].Environment = "prod"

(* the two requests served at once, by number *)
ReqOf(n) == IF self = n THEN req ELSE peer.req
LogOf(n) == IF self = n THEN log ELSE peer.log
ReturnedOk(n) == IF self = n THEN pc = "done" /\ result = "ok"
                 ELSE peer.pc = "done" /\ peer.result = "ok"
WrittenBy(n) == {LogOf(n)[i].Dest : i \in 1..Len(LogOf(n))}
OutputOf(n, p) ==
    LogOf(n)[CHOOSE i \in 1..Len(LogOf(n)) :
                /\ LogOf(n)[i].Dest = p
                /\ \A h \in 1..Len(LogOf(n)) : LogOf(n)[h].Dest = p => h <= i].Content

(* C11: the core takes no lock across requests: wherever a request is in
   GenerateTerraform, the other request, if it has not returned, can take its
   next step; the files under the output root are those either request has
   written, each holding what one of the two last wrote to it.  So two
   requests for the same entity path that render different content can
   interleave file by file and leave the entity's tree with files of both,
   equal to neither request's own output (C11_Witness). *)
C11_NoLock ==
    /\ peer.pc # "done" => ENABLED Yield
    /\ DOMAIN files = WrittenBy(1) \cup WrittenBy(2)
    /\ \A p \in DOMAIN files :
          \E n \in {1, 2} : p \in WrittenBy(n) /\ files[p] = OutputOf(n, p)

C11_Witness ==
    /\ ReturnedOk(1)
    /\ ReturnedOk(2)
    /\ ReqOf(1) = [OrganisationName |-> <<"o", "r", "g">>, ProductName |-> <<"s", "h", "o", "p">>,
                   Provider |-> <<"A", "W", "S">>, Customers |-> << <<"a", "c", "m", "e">> >>]
    /\ ReqOf(2) = [OrganisationName |-> <<"o", "r", "g">>, ProductName |-> <<"a", "c", "m", "e">>,
                   Provider |-> <<"A", "W", "S">>, Customers |-> << <<"a", "c", "m", "e">> >>]
    /\ LET root == <<"output", "AWS", "org", "acme">>
           tree == {p \in DOMAIN files : SubSeq(p, 1, 4) = root}
       IN  /\ Cardinality(tree) = 8
           /\ WrittenBy(1) = tree
           /\ WrittenBy(2) = tree
           /\ \A p \in tree : OutputOf(1, p) # OutputOf(2, p)
           /\ files[root \o <<"providers.tf">>] = OutputOf(2, root \o <<"providers.tf">>)
           /\ files[root \o <<"main.tf">>] = OutputOf(1, root \o <<"main.tf">>)
           /\ files[root \o <<"variables.tf">>] = OutputOf(2, root \o <<"variables.tf">>)
           /\ files[root \o <<"vars", "acme_prod.tfvars">>]
                 = OutputOf(1, root \o <<"vars", "acme_prod.tfvars">>)
           /\ [p \in tree |-> files[p]] # [p \in tree |-> OutputOf(1, p)]
           /\ [p \in tree |-> files[p]] # [p \in tree |-> OutputOf(2, p)]

BaseFiles == {"providers.tf", "main.tf", "variables.tf", "vars.tfvars"}

(* C12: the "Environment" assigned while one customer's per-environment files
   are rendered never reaches another customer: each customer's data context
   is built anew, so for every customer of the request, the first and every
   later one, the four base files are rendered with "Environment" equal to the
   configuration's value and "CustomerName" equal to that customer's trimmed
   name; a customer whose rendering has completed has all four of them. *)
C12_FreshContext ==
    /\ \A i \in 1..Len(log) :
          (log[i].Entity >= 1 /\ log[i].Dest[Len(log[i].Dest)] \in BaseFiles) =>
             /\ log[i].Environment = config.Environment
             /\ log[i].CustomerName = ExpectedName(req.Customers[log[i].Entity])
    /\ (pc = "render" /\ ci >= 1 /\ fi <= 4) =>
          /\ data.Environment = config.Environment
          /\ data.CustomerName = ExpectedName(req.Customers[ci])
    /\ \A k \in 1..Len(req.Customers) :
          (Succeeded \/ (pc # "start" /\ ci > k)) =>
             {log[i].Dest[Len(log[i].Dest)] : i \in (8 * (k - 1) + 1)..(8 * (k - 1) + 4)}
                = BaseFiles

C12_Witness ==
    /\ Succeeded
    /\ req.Customers = << <<"a", "c", "m", "e">>, <<" ", "b", "e", "t", "a", " ">> >>
    /\ config.Environment = "dev"
    /\ log[8].Environment = "prod"
    /\ log[8].CustomerName = "acme"
    /\ \A i \in 9..12 :
          /\ log[i].Entity = 2
          /\ log[i].Dest[Len(log[i].Dest)] \in BaseFiles
          /\ log[i].Environment = "dev"
          /\ log[i].CustomerName = "beta"

====
